---------------------------- MODULE Spec2Model ----------------------------
(***************************************************************************)
(* Model of src/app.py: EnvReader, TemplateRenderer,                       *)
(* KubernetesManifestGenerator and App.                                    *)
(*                                                                         *)
(* YAML text is modelled as a sequence of lines [key, val]:                *)
(*   key = "-"   a block sequence item          "- val"                    *)
(*   key = ""    a bare scalar                  "val"                      *)
(*   otherwise   a block mapping entry          "key: val"                 *)
(* A val of "[" opens a flow sequence that is never closed, which the YAML *)
(* parser rejects.  A val of "[]" on a bare scalar line is the empty flow  *)
(* sequence.                                                               *)
(***************************************************************************)
EXTENDS Integers, Sequences, FiniteSets, TLC

VARIABLES
    configFile,     \* the values file: [exists, text]
    environ,        \* os.environ: function from variable names to strings
    templateFiles,  \* the template directory: template name -> [exists, lines]
    dirExists,      \* whether the output directory exists
    disk,           \* the output directory: file name -> [exists, text]
    pc,             \* position of the process: start, constructed, generating, done, failed, crashed
    context,        \* the value returned by EnvReader.read
    idx,            \* position of the loop of generate_yaml_files in templates
    error,          \* the exception propagating out of the process, or "none"
    failStage,      \* the step that raised it: none, construct, read, render, open, parse, write
    errorLog,       \* the logging.error calls of this run, in order: [site, err]
    exitCode,       \* process exit status, -1 while running
    renderCount,    \* per binding: calls of TemplateRenderer.render in this run
    parseCount,     \* per binding: calls of yaml.safe_load on rendered text in this run
    written,        \* the file names whose yaml.dump completed in this run, in order
    diskBefore,     \* the output directory as it was when this run started
    run,            \* number of the current process invocation
    applyCalls,     \* number of os.system("kubectl apply ...") invocations
    applyStatus,    \* the exit status os.system returned last, -1 if never called
    applyRaised     \* whether the last apply_kubernetes_manifests raised

vars == <<configFile, environ, templateFiles, dirExists, disk, pc, context, idx,
          error, failStage, errorLog, exitCode, renderCount, parseCount, written,
          diskBefore, run, applyCalls, applyStatus, applyRaised>>

(***************************************************************************)
(* Bounds                                                                  *)
(***************************************************************************)
MaxRuns == 2          \* process invocations against the same output directory
MaxEnvVars == 2       \* environment variable names that may be set
MaxConfigLines == 2   \* lines of the values file
MaxApplyCalls == 1    \* calls of apply_kubernetes_manifests by a caller

Min(a, b) == IF a < b THEN a ELSE b
Range(s) == {s[i] : i \in DOMAIN s}

(***************************************************************************)
(* Values and documents (the Python objects yaml.safe_load builds)         *)
(***************************************************************************)
IntVal(r) == [type |-> "int", repr |-> r]
StrVal(r) == [type |-> "str", repr |-> r]
NullVal == [type |-> "null", repr |-> "null"]

EmptyMap == [k \in {} |-> NullVal]

MappingDoc(m) == [kind |-> "mapping", map |-> m, items |-> <<>>, scalar |-> NullVal]
SequenceDoc(s) == [kind |-> "sequence", map |-> EmptyMap, items |-> s, scalar |-> NullVal]
ScalarDoc(v) == [kind |-> v.type, map |-> EmptyMap, items |-> <<>>, scalar |-> v]
NullDoc == ScalarDoc(NullVal)

Line(k, v) == [key |-> k, val |-> v]
IsItem(l) == l.key = "-"
IsScalar(l) == l.key = ""
IsEntry(l) == ~IsItem(l) /\ ~IsScalar(l)

\* The plain scalars the YAML resolver reads as integers.
IntLiterals == {"3", "5"}

\* yaml resolver: the Python value of a plain scalar.
Resolve(val) ==
    IF val = "" \/ val = "null" THEN NullVal
    ELSE IF val \in IntLiterals THEN IntVal(val)
    ELSE StrVal(val)

LastIndex(text, k) ==
    CHOOSE i \in DOMAIN text :
        /\ text[i].key = k
        /\ \A j \in DOMAIN text : text[j].key = k => j <= i

\* yaml.safe_load: [ok, doc].  A duplicate mapping key keeps its last value.
SafeLoad(text) ==
    IF \E i \in DOMAIN text : text[i].val = "["
        THEN [ok |-> FALSE, doc |-> NullDoc]
    ELSE IF Len(text) = 0
        THEN [ok |-> TRUE, doc |-> NullDoc]
    ELSE IF \A i \in DOMAIN text : IsEntry(text[i])
        THEN [ok |-> TRUE,
              doc |-> MappingDoc([k \in {text[i].key : i \in DOMAIN text} |->
                                     Resolve(text[LastIndex(text, k)].val)])]
    ELSE IF \A i \in DOMAIN text : IsItem(text[i])
        THEN [ok |-> TRUE,
              doc |-> SequenceDoc([i \in DOMAIN text |-> Resolve(text[i].val)])]
    ELSE IF Len(text) = 1 /\ IsScalar(text[1])
        THEN IF text[1].val = "[]"
                THEN [ok |-> TRUE, doc |-> SequenceDoc(<<>>)]
                ELSE [ok |-> TRUE, doc |-> ScalarDoc(Resolve(text[1].val))]
    ELSE [ok |-> FALSE, doc |-> NullDoc]

\* The mapping keys of the model in the order yaml.dump sorts them (sort_keys
\* defaults to True).
KeyOrder == <<"image", "replicaCount", "replicas", "spec">>

KeysInOrder(S) == SelectSeq(KeyOrder, LAMBDA k : k \in S)

\* yaml.dump(..., default_flow_style=False): the text written for a document.
Dump(doc) ==
    CASE doc.kind = "mapping" ->
            LET ks == KeysInOrder(DOMAIN doc.map)
            IN  [i \in DOMAIN ks |-> Line(ks[i], doc.map[ks[i]].repr)]
      [] doc.kind = "sequence" ->
            IF Len(doc.items) = 0 THEN <<Line("", "[]")>>
            ELSE [i \in DOMAIN doc.items |-> Line("-", doc.items[i].repr)]
      [] OTHER -> <<Line("", doc.scalar.repr)>>


(***************************************************************************)
(* EnvReader                                                               *)
(***************************************************************************)
Return(doc) == [raised |-> FALSE, err |-> "none", sites |-> <<>>, value |-> doc]
Raise(e, s) == [raised |-> TRUE, err |-> e, sites |-> s, value |-> NullDoc]

\* Python's `a in b` on two strings is substring containment.  Strings are
\* atomic here, so the proper substrings among the strings of the model are
\* listed.
ProperSubstrings == {<<"image", "imagery">>}

IsSubstring(a, b) == a = b \/ <<a, b>> \in ProperSubstrings

\* dict.update semantics: every environment variable lands in the mapping.
OverlayEnvUpdate(m, env) ==
    [k \in DOMAIN m \cup DOMAIN env |-> IF k \in DOMAIN env THEN StrVal(env[k]) ELSE m[k]]

\* The loop over os.environ on a dict.
OverlayEnv(m, env) ==
    [k \in DOMAIN m |-> IF k \in DOMAIN env THEN StrVal(env[k]) ELSE m[k]]

\* The loop over os.environ on whatever yaml.safe_load returned.  It is
\* outside the try block: what it raises is not logged by read.
Overlay(doc, env) ==
    CASE doc.kind = "mapping" -> Return(MappingDoc(OverlayEnv(doc.map, env)))
      [] doc.kind = "sequence" ->
            \* `key in list` is membership; list[key] = value needs an integer index
            IF \E k \in DOMAIN env : StrVal(k) \in Range(doc.items)
                THEN Raise("TypeError", <<>>)
                ELSE Return(doc)
      [] doc.kind = "str" ->
            \* `key in str` is containment; str does not support item assignment
            IF \E k \in DOMAIN env : IsSubstring(k, doc.scalar.repr)
                THEN Raise("TypeError", <<>>)
                ELSE Return(doc)
      [] OTHER ->
            \* None and int are not iterable: the first `key in context` raises
            IF DOMAIN env # {} THEN Raise("TypeError", <<>>) ELSE Return(doc)

\* A reader that treats a missing values file as an empty document.
ReadMissingAsEmpty(file, env) ==
    IF ~file.exists THEN Return(MappingDoc(EmptyMap))
    ELSE LET r == SafeLoad(file.text)
         IN  IF ~r.ok THEN Raise("YAMLError", <<"read:24">>)
             ELSE Overlay(r.doc, env)

\* EnvReader.read
Read(file, env) ==
    IF ~file.exists THEN Raise("FileNotFoundError", <<"read:21">>)
    ELSE LET r == SafeLoad(file.text)
         IN  IF ~r.ok THEN Raise("YAMLError", <<"read:24">>)
             ELSE Overlay(r.doc, env)

(***************************************************************************)
(* TemplateRenderer                                                        *)
(* A template is a sequence of lines [key, lit, var]: "key: lit" when var  *)
(* is "", "key: {{ var }}" otherwise.                                      *)
(***************************************************************************)
TLine(k, l, v) == [key |-> k, lit |-> l, var |-> v]

\* How Jinja2 prints a Python value.
RenderValue(v) == IF v.type = "null" THEN "None" ELSE v.repr

\* A variable the context lacks is Undefined, which prints as "".
Lookup(m, var) == IF var \in DOMAIN m THEN RenderValue(m[var]) ELSE ""

\* template.render(context) starts with dict(context).  Of the non-mappings
\* only an empty sequence converts (to {}): None and int are not iterable, and
\* no string or sequence item of the model is a pair.
ContextDict(ctx) ==
    CASE ctx.kind = "mapping" -> [ok |-> TRUE, err |-> "none", map |-> ctx.map]
      [] ctx.kind = "sequence" ->
            IF Len(ctx.items) = 0
                THEN [ok |-> TRUE, err |-> "none", map |-> EmptyMap]
                ELSE [ok |-> FALSE, err |-> "ValueError", map |-> EmptyMap]
      [] ctx.kind = "str" -> [ok |-> FALSE, err |-> "ValueError", map |-> EmptyMap]
      [] OTHER -> [ok |-> FALSE, err |-> "TypeError", map |-> EmptyMap]

\* TemplateRenderer.render: [raised, err, text]
Render(tfile, ctx) ==
    IF ~tfile.exists
        THEN [raised |-> TRUE, err |-> "TemplateNotFound", text |-> <<>>]
    ELSE LET d == ContextDict(ctx)
         IN  IF ~d.ok THEN [raised |-> TRUE, err |-> d.err, text |-> <<>>]
             ELSE [raised |-> FALSE, err |-> "none",
                   text |-> [i \in DOMAIN tfile.lines |->
                               Line(tfile.lines[i].key,
                                    IF tfile.lines[i].var = ""
                                        THEN tfile.lines[i].lit
                                        ELSE Lookup(d.map, tfile.lines[i].var))]]

(***************************************************************************)
(* KubernetesManifestGenerator                                             *)
(***************************************************************************)
\* A table that lost its last binding.
templatesWithoutHpa ==
    << [file |-> "service.yaml", template |-> "service.yaml.j2"],
       [file |-> "ingress.yaml", template |-> "ingress.yaml.j2"],
       [file |-> "deploy.yaml", template |-> "deploy.yaml.j2"] >>

\* The dict of generate_yaml_files, in insertion order.
templates ==
    << [file |-> "service.yaml", template |-> "service.yaml.j2"],
       [file |-> "ingress.yaml", template |-> "ingress.yaml.j2"],
       [file |-> "deploy.yaml", template |-> "deploy.yaml.j2"],
       [file |-> "hpa.yaml", template |-> "hpa.yaml.j2"] >>

NumBindings == Len(templates)
Bindings == 1..NumBindings
FileNames == {templates[i].file : i \in Bindings}
TemplateNames == {templates[i].template : i \in Bindings}

Absent == [exists |-> FALSE, text |-> <<>>]
File(t) == [exists |-> TRUE, text |-> t]

\* open(file_path, 'a') keeps what the file held.
OpenForAppend(old) == IF old.exists THEN old ELSE File(<<>>)

\* open(file_path, 'w') creates the file or truncates it.
OpenForWrite(old) == File(<<>>)

\* The file after yaml.dump wrote text through the handle open() returned.
Written(opened, text) == File(opened.text \o text)

Entry(site, e) == [site |-> site, err |-> e]
LogAll(log, sites, e) == log \o [i \in DOMAIN sites |-> Entry(sites[i], e)]

(***************************************************************************)
(* The process                                                             *)
(***************************************************************************)
inputs == <<configFile, environ, templateFiles>>
applyVars == <<applyCalls, applyStatus, applyRaised>>

NoCounts == [i \in Bindings |-> 0]

\* An except clause of App.run that logs and does not re-raise.
AppRunExceptSwallow(stage, e, log) ==
    /\ pc' = "done"
    /\ error' = "none"
    /\ failStage' = "none"
    /\ errorLog' = Append(log, Entry("run:121", e))
    /\ exitCode' = 0

\* The except clause of App.run: log, then re-raise to the process boundary.
AppRunExcept(stage, e, log) ==
    /\ pc' = "failed"
    /\ error' = e
    /\ failStage' = stage
    /\ errorLog' = Append(log, Entry("run:121", e))
    /\ exitCode' = 1

\* An except clause of the loop that logs and goes on with the next binding.
GenerateExceptContinue(stage, e, log) ==
    /\ idx' = idx + 1
    /\ errorLog' = Append(log, Entry("generate:77", e))
    /\ UNCHANGED <<pc, error, failStage, exitCode>>

\* The except clause of the loop of generate_yaml_files: log, then re-raise
\* into App.run.
GenerateExcept(stage, e, log) ==
    /\ idx' = idx
    /\ AppRunExcept(stage, e, Append(log, Entry("generate:77", e)))

\* os.system(...): the command runs, its exit status is returned and dropped.
OsSystem(status) ==
    /\ applyCalls' = applyCalls + 1
    /\ applyStatus' = status
    /\ applyRaised' = FALSE

ExitStatuses == {0, 1}

\* App.run with the call of apply_kubernetes_manifests in place.
RunApplyStepEnabled == \E status \in ExitStatuses : OsSystem(status)

\* The apply step of App.run: the call is commented out.
RunApplyStep == UNCHANGED applyVars

\* App.__init__ -> KubernetesManifestGenerator.__init__: os.makedirs either
\* leaves the directory in place or raises out of the constructor, before
\* App.run is entered.
Construct ==
    /\ pc = "start"
    /\ \/ /\ dirExists' = TRUE
          /\ pc' = "constructed"
          /\ UNCHANGED <<error, failStage, exitCode>>
       \/ /\ ~dirExists
          /\ dirExists' = FALSE
          /\ pc' = "crashed"
          /\ error' = "OSError"
          /\ failStage' = "construct"
          /\ exitCode' = 1
    /\ UNCHANGED <<inputs, disk, context, idx, errorLog, renderCount, parseCount,
                   written, diskBefore, run, applyVars>>

\* App.run up to the return of EnvReader.read
EnvReaderRead ==
    /\ pc = "constructed"
    /\ LET r == Read(configFile, environ)
       IN  \/ /\ ~r.raised
              /\ context' = r.value
              /\ pc' = "generating"
              /\ idx' = 1
              /\ UNCHANGED <<error, failStage, errorLog, exitCode>>
           \/ /\ r.raised
              /\ AppRunExcept("read", r.err, LogAll(errorLog, r.sites, r.err))
              /\ UNCHANGED <<context, idx>>
    /\ UNCHANGED <<inputs, dirExists, disk, renderCount, parseCount, written,
                   diskBefore, run, applyVars>>

\* One iteration of the loop of generate_yaml_files: render, then write_yaml
\* (open, safe_load, dump).
GenerateStep ==
    /\ pc = "generating"
    /\ idx <= NumBindings
    /\ LET b == templates[idx]
           r == Render(templateFiles[b.template], context)
           opened == OpenForWrite(disk[b.file])
           p == SafeLoad(r.text)
       IN  /\ renderCount' = [renderCount EXCEPT ![idx] = @ + 1]
           /\ \/ /\ r.raised
                 /\ GenerateExcept("render", r.err, Append(errorLog, Entry("render:48", r.err)))
                 /\ UNCHANGED <<disk, parseCount, written>>
              \/ \* open() raises: the file is as it was
                 /\ ~r.raised
                 /\ GenerateExcept("open", "OSError", Append(errorLog, Entry("write_yaml:86", "OSError")))
                 /\ UNCHANGED <<disk, parseCount, written>>
              \/ \* the rendered text does not parse: the file is already open
                 /\ ~r.raised
                 /\ parseCount' = [parseCount EXCEPT ![idx] = @ + 1]
                 /\ ~p.ok
                 /\ disk' = [disk EXCEPT ![b.file] = opened]
                 /\ GenerateExcept("parse", "YAMLError", Append(errorLog, Entry("write_yaml:86", "YAMLError")))
                 /\ UNCHANGED written
              \/ \* yaml.dump raises while writing
                 /\ ~r.raised
                 /\ parseCount' = [parseCount EXCEPT ![idx] = @ + 1]
                 /\ p.ok
                 /\ disk' = [disk EXCEPT ![b.file] = opened]
                 /\ GenerateExcept("write", "OSError", Append(errorLog, Entry("write_yaml:86", "OSError")))
                 /\ UNCHANGED written
              \/ /\ ~r.raised
                 /\ parseCount' = [parseCount EXCEPT ![idx] = @ + 1]
                 /\ p.ok
                 /\ disk' = [disk EXCEPT ![b.file] = Written(opened, Dump(p.doc))]
                 /\ written' = Append(written, b.file)
                 /\ idx' = idx + 1
                 /\ UNCHANGED <<pc, error, failStage, errorLog, exitCode>>
    /\ UNCHANGED <<inputs, dirExists, context, diskBefore, run, applyVars>>

\* The end of App.run after the loop: the apply step, then normal return.
RunComplete ==
    /\ pc = "generating"
    /\ idx > NumBindings
    /\ RunApplyStep
    /\ pc' = "done"
    /\ exitCode' = 0
    /\ UNCHANGED <<inputs, dirExists, disk, context, idx, error, failStage, errorLog,
                   renderCount, parseCount, written, diskBefore, run>>

\* __main__ once more, after a run that succeeded, on the same inputs.
Rerun ==
    /\ pc = "done"
    /\ run < MaxRuns
    /\ run' = run + 1
    /\ pc' = "start"
    /\ context' = NullDoc
    /\ idx' = 1
    /\ error' = "none"
    /\ failStage' = "none"
    /\ errorLog' = <<>>
    /\ exitCode' = -1
    /\ renderCount' = NoCounts
    /\ parseCount' = NoCounts
    /\ written' = <<>>
    /\ diskBefore' = disk
    /\ UNCHANGED <<inputs, dirExists, disk, applyVars>>

\* apply_kubernetes_manifests, called by a holder of the generator.
ApplyKubernetesManifests ==
    /\ pc \in {"constructed", "done"}
    /\ applyCalls < MaxApplyCalls
    /\ \E status \in ExitStatuses : OsSystem(status)
    /\ UNCHANGED <<inputs, dirExists, disk, pc, context, idx, error, failStage,
                   errorLog, exitCode, renderCount, parseCount, written,
                   diskBefore, run>>

(***************************************************************************)
(* Inputs                                                                  *)
(***************************************************************************)
EnvNames == <<"image", "HOME", "replicaCount">>
EnvKeys == {EnvNames[i] : i \in 1..Min(MaxEnvVars, Len(EnvNames))}
EnvValues == {"app:v2", "["}
Environs == UNION {[K -> EnvValues] : K \in SUBSET EnvKeys}

ConfigLines ==
    { Line("image", "app:v1"), Line("replicaCount", "3"), Line("image", "["),
      Line("-", "image"), Line("", "imagery"), Line("", "3"), Line("", "[]") }

\* Texts of at most MaxConfigLines lines.  A text that goes on after a bare
\* scalar is left out: YAML folds some of those into one scalar.
ConfigTexts ==
    { t \in UNION {[1..n -> ConfigLines] : n \in 0..MaxConfigLines} :
        Len(t) > 1 => ~IsScalar(t[1]) }

ConfigFiles == {Absent} \cup {File(t) : t \in ConfigTexts}

ValuesYaml == File(<<Line("replicaCount", "3"), Line("image", "app:v1")>>)

RunConfigFiles ==
    { Absent, ValuesYaml, File(<<>>), File(<<Line("image", "[")>>),
      File(<<Line("", "[]")>>) }

Template(ls) == [exists |-> TRUE, lines |-> ls]
NoTemplate == [exists |-> FALSE, lines |-> <<>>]
GoodTemplate == Template(<<TLine("replicas", "", "replicaCount"), TLine("image", "", "image")>>)
UnbalancedTemplate == Template(<<TLine("spec", "[", "")>>)
TemplateChoices == {NoTemplate, GoodTemplate, UnbalancedTemplate}

OldFile == File(<<Line("spec", "old")>>)

\* What the output directory may hold before the first run.
OutputDirs ==
    { [exists |-> FALSE, files |-> [f \in FileNames |-> Absent]] }
    \cup { [exists |-> TRUE, files |-> [f \in FileNames |-> IF f \in S THEN OldFile ELSE Absent]] :
             S \in {{}, {"deploy.yaml"}, FileNames} }

InitWith(configs, envs, tdirs, odirs) ==
    /\ configFile \in configs
    /\ environ \in envs
    /\ templateFiles \in tdirs
    /\ \E o \in odirs :
          /\ dirExists = o.exists
          /\ disk = o.files
          /\ diskBefore = o.files
    /\ pc = "start"
    /\ context = NullDoc
    /\ idx = 1
    /\ error = "none"
    /\ failStage = "none"
    /\ errorLog = <<>>
    /\ exitCode = -1
    /\ renderCount = NoCounts
    /\ parseCount = NoCounts
    /\ written = <<>>
    /\ run = 1
    /\ applyCalls = 0
    /\ applyStatus = -1
    /\ applyRaised = FALSE

\* The run path: python app.py
Init == InitWith(RunConfigFiles, Environs, [TemplateNames -> TemplateChoices], OutputDirs)
Next == Construct \/ EnvReaderRead \/ GenerateStep \/ RunComplete \/ Rerun
Spec == Init /\ [][Next]_vars

\* EnvReader.read over every values file and environment of the bounds.
InitRead ==
    InitWith(ConfigFiles, Environs, {[t \in TemplateNames |-> GoodTemplate]},
             {o \in OutputDirs : ~o.exists})
NextRead == Construct \/ EnvReaderRead
SpecRead == InitRead /\ [][NextRead]_vars

\* A caller that also uses apply_kubernetes_manifests.
InitApply ==
    InitWith({Absent, ValuesYaml}, {e \in Environs : DOMAIN e \subseteq {"image"}},
             [TemplateNames -> {GoodTemplate, NoTemplate}], {o \in OutputDirs : ~o.exists})
NextApply == Next \/ ApplyKubernetesManifests
SpecApply == InitApply /\ [][NextApply]_vars

(***************************************************************************)
(* Properties                                                              *)
(***************************************************************************)
ConfigDoc == SafeLoad(configFile.text)
ConfigIsMapping == configFile.exists /\ ConfigDoc.ok /\ ConfigDoc.doc.kind = "mapping"
ReadOver == pc \in {"generating", "done", "failed"}
TemplateOf(i) == templateFiles[templates[i].template]
OutputOf(i) == disk[templates[i].file]
Rendered(i) == Render(TemplateOf(i), context)
Expected(i) == File(Dump(SafeLoad(Rendered(i).text).doc))
BindingFailed == \E n \in DOMAIN errorLog : errorLog[n].site = "generate:77"
FourFiles == <<"service.yaml", "ingress.yaml", "deploy.yaml", "hpa.yaml">>

\* C1: for a values file that holds a mapping D and any environment E, read
\* returns a mapping with exactly the keys of D; a key in both has the
\* environment string E[k], a key only in D keeps D[k], a key only in E is
\* not added.
C1_ReadOverlaysEnvironment ==
    (ConfigIsMapping /\ ReadOver) =>
        /\ failStage # "read"
        /\ context.kind = "mapping"
        /\ DOMAIN context.map = DOMAIN ConfigDoc.doc.map
        /\ \A k \in DOMAIN ConfigDoc.doc.map :
              context.map[k] = IF k \in DOMAIN environ
                                  THEN StrVal(environ[k])
                                  ELSE ConfigDoc.doc.map[k]

C1_Witness ==
    /\ ConfigIsMapping
    /\ pc = "generating"
    /\ \E k \in DOMAIN ConfigDoc.doc.map : k \in DOMAIN environ
    /\ \E k \in DOMAIN ConfigDoc.doc.map :
          k \notin DOMAIN environ /\ context.map[k].type = "int"
    /\ \E k \in DOMAIN environ : k \notin DOMAIN ConfigDoc.doc.map

\* C2: read has three outcomes only: it returns a mapping, or fails with
\* NotFound because the path does not exist, or fails with ParseError because
\* the contents are not a valid document.
C2_ReadHasThreeOutcomes ==
    (ReadOver /\ failStage \in {"none", "read"}) =>
        \/ failStage = "none" /\ context.kind = "mapping"
        \/ failStage = "read" /\ error = "FileNotFoundError" /\ ~configFile.exists
        \/ failStage = "read" /\ error = "YAMLError" /\ configFile.exists /\ ~ConfigDoc.ok

\* C3: once a binding has failed at render, open, parse or write the run has
\* failed at that binding: every earlier binding was rendered, parsed and
\* written once in this run and its file is on disk as written, and no later
\* binding was rendered, parsed or written.
C3_FailFastNoRollback ==
    BindingFailed =>
        /\ pc = "failed"
        /\ failStage \in {"render", "open", "parse", "write"}
        /\ Len(written) = idx - 1
        /\ \A j \in Bindings : j < idx =>
              /\ renderCount[j] = 1 /\ parseCount[j] = 1
              /\ written[j] = templates[j].file
              /\ OutputOf(j) = Expected(j)
        /\ \A j \in Bindings : j > idx =>
              /\ renderCount[j] = 0 /\ parseCount[j] = 0
              /\ OutputOf(j) = diskBefore[templates[j].file]

C3_Witness ==
    /\ BindingFailed
    /\ failStage = "parse"
    /\ idx = 3
    /\ diskBefore["service.yaml"] = Absent /\ disk["service.yaml"].exists
    /\ diskBefore["deploy.yaml"] = OldFile
    /\ renderCount[4] = 0 /\ disk["hpa.yaml"] = Absent

\* C4: when App.run has completed, service.yaml, ingress.yaml, deploy.yaml and
\* hpa.yaml, and no other file, were written in this run, each exactly once,
\* one per binding, each from rendered text that parsed.
C4_OneFilePerBinding ==
    pc = "done" =>
        /\ written = FourFiles
        /\ dirExists
        /\ \A n \in DOMAIN FourFiles : disk[FourFiles[n]].exists
        /\ \A i \in Bindings :
              /\ renderCount[i] = 1 /\ parseCount[i] = 1
              /\ ~Rendered(i).raised
              /\ SafeLoad(Rendered(i).text).ok

C4_Witness ==
    /\ pc = "done"
    /\ run = 1
    /\ Len(written) = 4
    /\ diskBefore["deploy.yaml"] = OldFile /\ diskBefore["hpa.yaml"] = Absent

\* C5: when the values file does not exist the run fails at the read with
\* FileNotFoundError: nothing was rendered or parsed, no output file was
\* created or changed, and the output directory exists.
C5_MissingConfigFailsBeforeRender ==
    (~configFile.exists /\ pc \notin {"start", "constructed", "crashed"}) =>
        /\ pc = "failed"
        /\ failStage = "read"
        /\ error = "FileNotFoundError"
        /\ \A i \in Bindings : renderCount[i] = 0 /\ parseCount[i] = 0
        /\ written = <<>>
        /\ disk = diskBefore
        /\ dirExists

C5_Witness ==
    /\ ~configFile.exists
    /\ pc = "failed"
    /\ error = "FileNotFoundError"
    /\ disk["deploy.yaml"] = OldFile /\ disk["hpa.yaml"] = Absent

\* C6: the process exits 0 exactly when App.run completed, which it does only
\* after the read and the render, parse and write of all four bindings
\* succeeded with nothing logged as an error; a failed run exits non-zero with
\* the error of the step that failed, which every handler on the way logged
\* and App.run logged last, and no step ran twice.
C6_ExitZeroIffAllSucceeded ==
    /\ exitCode = 0 <=> pc = "done"
    /\ pc = "done" =>
          /\ error = "none" /\ errorLog = <<>>
          /\ ~Read(configFile, environ).raised
          /\ context = Read(configFile, environ).value
          /\ \A i \in Bindings : ~Rendered(i).raised /\ SafeLoad(Rendered(i).text).ok
          /\ written = FourFiles
    /\ pc = "failed" =>
          /\ exitCode = 1 /\ error # "none"
          /\ errorLog # <<>>
          /\ errorLog[Len(errorLog)] = Entry("run:121", error)
          /\ \A n \in DOMAIN errorLog : errorLog[n].err = error
          /\ Cardinality({n \in DOMAIN errorLog : errorLog[n].site = "run:121"}) = 1
          /\ failStage = "read" => Read(configFile, environ).raised /\ error = Read(configFile, environ).err
          /\ failStage = "render" => Rendered(idx).raised /\ error = Rendered(idx).err
          /\ failStage = "parse" => ~SafeLoad(Rendered(idx).text).ok
    /\ \A i \in Bindings : renderCount[i] <= 1 /\ parseCount[i] <= 1

C6_Witness ==
    /\ pc = "failed"
    /\ failStage = "parse"
    /\ idx = 2
    /\ exitCode = 1
    /\ Len(errorLog) = 3

\* C7: after apply_kubernetes_manifests was called, it raised exactly when the
\* external command exited with a non-zero status.
C7_ApplyFollowsExitStatus ==
    applyCalls > 0 => (applyRaised <=> applyStatus # 0)

C9_OverwriteNotMerge ==
    pc = "done" =>
        /\ \A i \in Bindings : OutputOf(i) = Expected(i)
        /\ run > 1 => disk = diskBefore

C9_Witness ==
    /\ pc = "done"
    /\ run = 2
    /\ disk["deploy.yaml"] = File(<<Line("image", "app:v2"), Line("replicas", "3")>>)

\* C10: a binding whose rendered text does not parse leaves its output file
\* as it was before the run.
C10_InvalidOutputLeavesFile ==
    (pc = "failed" /\ failStage = "parse") =>
        OutputOf(idx) = diskBefore[templates[idx].file]

=============================================================================
